---- MODULE Spec2Model ----
(***************************************************************************)
(* Model of the content-based recommender                                  *)
(* (src/src/recommender/content_based.py), of the feature build            *)
(* (src/src/data/build_game_features.py) and of the resumable fetchers     *)
(* (src/src/data/fetch_appdetails.py, fetch_reviews.py, fetch_tags.py).    *)
(*                                                                         *)
(* Spec: queries on a constructed engine.  SpecBuild: runs of the build.   *)
(* SpecLoad: an engine constructed beside a rebuild.  SpecFetch: runs of   *)
(* one fetcher.                                                            *)
(*                                                                         *)
(* Numbers: the code works in float64.  The model keeps integers exactly   *)
(* and represents the fractional quantities the engine computes            *)
(* (cosine distance, normalised review fields, overall score) in fixed     *)
(* point with Scale units per 1.0.                                         *)
(* Text: a CSV cell is a sequence of one-character strings; the empty      *)
(* sequence is the missing cell (pandas reads it as NaN).                  *)
(***************************************************************************)
EXTENDS Integers, Sequences, FiniteSets, TLC

\* ------------------------------------------------------------------ bounds
NumApps == 3
NNeighbors == 2
MaxTopN == 2
MaxLiked == 2
Scale == 100
NumFree == 2
NumTargets == 2
NumValues == 2
MaxRuns == 3

\* ------------------------------------------------- re-ranking weights (x10)
W_SIM == 30
W_REV == 8
W_VOL == 9

\* ---------------------------------------------------------------- helpers
Range(s) == {s[i] : i \in DOMAIN s}

Min2(a, b) == IF a <= b THEN a ELSE b

RECURSIVE SeqSum(_)
SeqSum(s) == IF s = <<>> THEN 0 ELSE Head(s) + SeqSum(Tail(s))

SetMin(S) == CHOOSE x \in S : \A y \in S : x <= y
SetMax(S) == CHOOSE x \in S : \A y \in S : x >= y

\* floor of the square root of n, known to lie in lo..hi, by bisection
RECURSIVE ISqrtIn(_, _, _)
ISqrtIn(n, lo, hi) ==
    IF lo >= hi THEN lo
    ELSE LET mid == (lo + hi + 1) \div 2
         IN  IF mid * mid <= n THEN ISqrtIn(n, mid, hi) ELSE ISqrtIn(n, lo, mid - 1)

\* floor(log10(n)) for n >= 1; exact on the powers of ten the inputs use
RECURSIVE Log10(_)
Log10(n) == IF n < 10 THEN 0 ELSE 1 + Log10(n \div 10)

\* ------------------------------------------------- str.split / str.strip
RECURSIVE SplitRec(_, _, _)
SplitRec(s, sep, cur) ==
    IF s = <<>> THEN <<cur>>
    ELSE IF Head(s) = sep THEN <<cur>> \o SplitRec(Tail(s), sep, <<>>)
    ELSE SplitRec(Tail(s), sep, Append(cur, Head(s)))

RECURSIVE LStrip(_)
LStrip(t) == IF t # <<>> /\ Head(t) = " " THEN LStrip(Tail(t)) ELSE t

RECURSIVE RStrip(_)
RStrip(t) == IF t # <<>> /\ t[Len(t)] = " " THEN RStrip(SubSeq(t, 1, Len(t) - 1)) ELSE t

Strip(t) == RStrip(LStrip(t))

\* content_based.py _split_semicolon: the set of trimmed, non-empty labels
rec_split_semicolon(s) ==
    IF s = <<>> THEN {}
    ELSE {Strip(t) : t \in {u \in Range(SplitRec(s, ";", <<>>)) : Strip(u) # <<>>}}

\* ===================================================================
\*                         THE LOADED FILES
\* ===================================================================
AppIds == 1..NumApps

\* what one catalogue item contributes to the two loaded files: rows of
\* game_features.npz (inBundle) and rows of games_clean.csv (inTable).  The
\* files are written and read separately, so they can disagree; an item
\* with twice = TRUE has two bundle rows (the build keeps duplicate appids)
Kinds ==
    { [inBundle |-> TRUE,  inTable |-> TRUE,  twice |-> FALSE, genres |-> <<"A">>],
      [inBundle |-> TRUE,  inTable |-> TRUE,  twice |-> FALSE,
       genres |-> <<"A", ";", " ", "B">>],
      [inBundle |-> TRUE,  inTable |-> TRUE,  twice |-> FALSE,
       genres |-> <<"P", " ", ";">>],
      [inBundle |-> TRUE,  inTable |-> TRUE,  twice |-> FALSE, genres |-> <<>>],
      [inBundle |-> TRUE,  inTable |-> FALSE, twice |-> TRUE,  genres |-> <<>>],
      [inBundle |-> FALSE, inTable |-> TRUE,  twice |-> FALSE, genres |-> <<"B">>] }

\* feature rows, adjusted review scores (percent) and review totals by appid
VecTable == << <<2, 0>>, <<2, 1>>, <<0, 1>>, <<1, 1>>, <<-1, 1>> >>
ScoreTable == << 40, 90, 70, 55, 80 >>
TotalTable == << 0, 99, 9, 999, 0 >>
VecOf(a) == VecTable[((a - 1) % Len(VecTable)) + 1]
ScoreOf(a) == (ScoreTable[((a - 1) % Len(ScoreTable)) + 1] * Scale) \div 100
TotalOf(a) == TotalTable[((a - 1) % Len(TotalTable)) + 1]

BundleRow(a, v) == [appid |-> a, x |-> v]
TableRow(a, genres) ==
    [appid |-> a, genres |-> genres,
     review_score_adj |-> ScoreOf(a), review_total |-> TotalOf(a)]

RECURSIVE BundleRows(_, _)
BundleRows(kind, a) ==
    IF a > NumApps THEN <<>>
    ELSE (IF ~kind[a].inBundle THEN <<>>
          ELSE IF kind[a].twice THEN <<BundleRow(a, VecOf(a)), BundleRow(a, VecOf(a + 1))>>
          ELSE <<BundleRow(a, VecOf(a))>>)
         \o BundleRows(kind, a + 1)

RECURSIVE TableRows(_, _)
TableRows(kind, a) ==
    IF a > NumApps THEN <<>>
    ELSE (IF ~kind[a].inTable THEN <<>>
          ELSE IF kind[a].twice
               THEN <<TableRow(a, kind[a].genres), TableRow(a, kind[a].genres)>>
          ELSE <<TableRow(a, kind[a].genres)>>)
         \o TableRows(kind, a + 1)

DiskOf(kind) == [bundle |-> BundleRows(kind, 1), games |-> TableRows(kind, 1)]

Disks == {DiskOf(kind) : kind \in [AppIds -> Kinds]}

\* ===================================================================
\*                 ContentBasedRecommender: construction
\* ===================================================================
VARIABLES pc, engine, last, inputs, out

vars == <<pc, engine, last, inputs, out>>

\* no build is running beside the engine
NoFiles == [exists |-> FALSE]

\* the last index i with keys[i] = k: a dict comprehension keeps the last
\* value written under a key
LastIndexOf(keys, k) == SetMax({i \in DOMAIN keys : keys[i] = k})

TableAppids(games) == [i \in DOMAIN games |-> games[i].appid]

\* self.games["review_volume_log"] = log10(review_total + 1)
review_volume_log(row) == Log10(row.review_total + 1) * Scale

\* __init__: the fields of a constructed engine
EngineOf(d, k) ==
    LET appids == [i \in DOMAIN d.bundle |-> d.bundle[i].appid]
        tab == TableAppids(d.games)
        scores == {d.games[i].review_score_adj : i \in DOMAIN d.games}
        vols == {review_volume_log(d.games[i]) : i \in DOMAIN d.games}
    IN  [ n_neighbors |-> k,
          X |-> [i \in DOMAIN d.bundle |-> d.bundle[i].x],
          appids |-> appids,
          appid_to_index |->
              [a \in Range(appids) |-> LastIndexOf(appids, a)],
          appid_to_genres |->
              [a \in Range(tab) |->
                  rec_split_semicolon(d.games[LastIndexOf(tab, a)].genres)],
          appid_to_review_score |->
              [a \in Range(tab) |-> d.games[LastIndexOf(tab, a)].review_score_adj],
          appid_to_review_volume_log |->
              [a \in Range(tab) |-> review_volume_log(d.games[LastIndexOf(tab, a)])],
          review_score_min |-> SetMin(scores),
          review_score_max |-> SetMax(scores),
          review_vol_min |-> SetMin(vols),
          review_vol_max |-> SetMax(vols),
          W_SIM |-> W_SIM, W_REV |-> W_REV, W_VOL |-> W_VOL ]

NoCall ==
    [ op |-> "none", appid |-> 0, liked |-> <<>>, top_n |-> 0, exclude_self |-> FALSE,
      outcome |-> "none", queries |-> <<>>, pool |-> <<>>, ref_genres |-> {},
      result |-> <<>> ]

\* an engine constructed with n_neighbors = NNeighbors over the files on
\* disk: a bundle with at least one row (NearestNeighbors.fit rejects an
\* empty matrix) and a games table with at least one row
Init ==
    /\ engine \in {EngineOf(d, NNeighbors) :
                      d \in {f \in Disks : f.bundle # <<>> /\ f.games # <<>>}}
    /\ pc = "idle"
    /\ last = NoCall
    /\ inputs = NoFiles
    /\ out = NoFiles

\* ===================================================================
\*                 ContentBasedRecommender: helpers
\* ===================================================================
\* dict.get(key, default)
DictGet(d, key, default) == IF key \in DOMAIN d THEN d[key] ELSE default

None == 0

\* _get_index_for_appid: the row index, or None
get_index_for_appid_ByTable(eng, appid) ==
    IF appid \in DOMAIN eng.appid_to_genres THEN 1 ELSE None
get_index_for_appid(eng, appid) == DictGet(eng.appid_to_index, appid, None)

get_review_score(eng, appid) ==
    DictGet(eng.appid_to_review_score, appid, Scale \div 2)

get_review_volume_log(eng, appid) ==
    DictGet(eng.appid_to_review_volume_log, appid, 0)

\* _normalize: min-max scaling, in Scale units
normalize(value, vmin, vmax, default) ==
    IF vmax <= vmin THEN default
    ELSE ((value - vmin) * Scale) \div (vmax - vmin)

\* _compute_overall_score, in units of 1/(10*Scale)
compute_overall_score(eng, similarity, appid) ==
    LET norm_rev == normalize(get_review_score(eng, appid),
                              eng.review_score_min, eng.review_score_max, Scale \div 2)
        norm_vol == normalize(get_review_volume_log(eng, appid),
                              eng.review_vol_min, eng.review_vol_max, 0)
    IN  eng.W_SIM * similarity + eng.W_REV * norm_rev + eng.W_VOL * norm_vol

\* ---------------------------------------------- NearestNeighbors (cosine)
Dot(u, v) == SeqSum([j \in DOMAIN u |-> u[j] * v[j]])

\* a query vector is num/den: X[idx:idx+1] has den = 1, the mean of n rows
\* has num = their sum and den = n
VecSum(rows) == [j \in DOMAIN rows[1] |-> SeqSum([i \in DOMAIN rows |-> rows[i][j]])]
MeanVec(rows) == [num |-> VecSum(rows), den |-> Len(rows)]

\* cosine distance 1 - u.v/(|u||v|), floored to Scale units; den cancels
\* between u.v and |u|; a zero vector has similarity 0 to everything
CosineDistance(q, v) ==
    LET d == Dot(q.num, v)
        a == Dot(q.num, q.num)
        b == Dot(v, v)
        mag == IF a = 0 \/ b = 0 THEN 0
               ELSE ISqrtIn((d * d * Scale * Scale) \div (a * b), 0, Scale)
    IN  Scale - (IF d < 0 THEN 0 - mag ELSE mag)

\* kneighbors(q, n_neighbors=k): every (distances, indices) answer a brute
\* force search may give: k distinct rows, ascending by distance, none
\* farther than a row left out; the order among equal distances is the
\* library's choice
RECURSIVE Distances(_, _)
Distances(q, X) ==
    IF X = <<>> THEN <<>> ELSE <<CosineDistance(q, Head(X))>> \o Distances(q, Tail(X))

PoolsOf(dist, k) ==
    LET n == Len(dist)
        picks == {p \in [1..k -> 1..n] :
                    /\ \A i, j \in 1..k : i < j => p[i] # p[j] /\ dist[p[i]] <= dist[p[j]]
                    /\ \A r \in 1..n : (\A i \in 1..k : p[i] # r) => dist[r] >= dist[p[k]]}
    IN  {[i \in 1..k |-> [idx |-> p[i], dist |-> dist[p[i]]]] : p \in picks}

KnnPools(eng, q, k) == UNION {PoolsOf(dist, k) : dist \in {Distances(q, eng.X)}}

\* ------------------------------------------------------ the candidate loop
\* exclude_self and rec_appid == appid
SkipSelfInverted(exclude_self, rec_appid, appid) == ~exclude_self /\ rec_appid = appid
SkipSelf(exclude_self, rec_appid, appid) == exclude_self /\ rec_appid = appid

\* rec_appid in liked_set
SkipLiked(liked_set, rec_appid) == rec_appid \in liked_set

\* ref_genres and not (ref_genres & cand_genres)
GenreDropUnion(ref_genres, cand_genres) ==
    ref_genres # {} /\ ref_genres \cup cand_genres = {}
GenreDrop(ref_genres, cand_genres) ==
    ref_genres # {} /\ ref_genres \cap cand_genres = {}

\* the dict appended for one surviving neighbour
Candidate(eng, e) ==
    LET rec_appid == eng.appids[e.idx]
        similarity == Scale - e.dist
    IN  [ appid |-> rec_appid,
          distance |-> e.dist,
          similarity |-> similarity,
          review_score_adj |-> get_review_score(eng, rec_appid),
          review_volume_log |-> get_review_volume_log(eng, rec_appid),
          overall_score |-> compute_overall_score(eng, similarity, rec_appid) ]

\* candidates.sort(key=overall_score, reverse=True): stable, descending
RECURSIVE InsertDesc(_, _)
InsertDesc(sorted, c) ==
    IF sorted = <<>> THEN <<c>>
    ELSE IF Head(sorted).overall_score >= c.overall_score
         THEN <<Head(sorted)>> \o InsertDesc(Tail(sorted), c)
         ELSE <<c>> \o sorted

RECURSIVE SortDescFrom(_, _)
SortDescFrom(sorted, rest) ==
    IF rest = <<>> THEN sorted
    ELSE SortDescFrom(InsertDesc(sorted, Head(rest)), Tail(rest))

SortByScoreUnsorted(cands) == cands
SortByScore(cands) == SortDescFrom(<<>>, cands)

\* candidates[:top_n], top_n >= 0
TopN(cands, top_n) == SubSeq(cands, 1, Min2(top_n, Len(cands)))

\* ===================================================================
\*                 ContentBasedRecommender: public methods
\* ===================================================================
RECURSIVE FilterSimilar(_, _, _, _, _)
FilterSimilar(eng, appid, exclude_self, ref_genres, pool) ==
    IF pool = <<>> THEN <<>>
    ELSE LET e == Head(pool)
             rec_appid == eng.appids[e.idx]
             cand_genres == DictGet(eng.appid_to_genres, rec_appid, {})
             rest == FilterSimilar(eng, appid, exclude_self, ref_genres, Tail(pool))
         IN  IF SkipSelf(exclude_self, rec_appid, appid) THEN rest
             ELSE IF GenreDrop(ref_genres, cand_genres) THEN rest
             ELSE <<Candidate(eng, e)>> \o rest

RECURSIVE FilterLiked(_, _, _, _)
FilterLiked(eng, liked_set, liked_genres_union, pool) ==
    IF pool = <<>> THEN <<>>
    ELSE LET e == Head(pool)
             rec_appid == eng.appids[e.idx]
             cand_genres == DictGet(eng.appid_to_genres, rec_appid, {})
             rest == FilterLiked(eng, liked_set, liked_genres_union, Tail(pool))
         IN  IF SkipLiked(liked_set, rec_appid) THEN rest
             ELSE IF GenreDrop(liked_genres_union, cand_genres) THEN rest
             ELSE <<Candidate(eng, e)>> \o rest

\* liked_set = {int(a) for a in liked_appids}
LikedSetOfIndices(eng, liked_appids) ==
    {get_index_for_appid(eng, liked_appids[i]) : i \in DOMAIN liked_appids} \ {None}
LikedSet(eng, liked_appids) == Range(liked_appids)

\* liked_genres_union: built over every id of liked_appids
LikedGenresUnion(eng, liked_appids) ==
    UNION {DictGet(eng.appid_to_genres, liked_appids[i], {}) : i \in DOMAIN liked_appids}

\* the resolved row indices, in the order of liked_appids
ResolvedIndices(eng, liked_appids) ==
    SelectSeq([i \in DOMAIN liked_appids |-> get_index_for_appid(eng, liked_appids[i])],
              LAMBDA i : i # None)

Call(op, appid, liked, top_n, exclude_self) ==
    [ op |-> op, appid |-> appid, liked |-> liked, top_n |-> top_n,
      exclude_self |-> exclude_self,
      outcome |-> "none", queries |-> <<>>, pool |-> <<>>, ref_genres |-> {},
      result |-> <<>> ]

\* recommend_similar_by_appid(appid, top_n, exclude_self)
recommend_similar_by_appid(appid, top_n, exclude_self) ==
    LET call == Call("similar", appid, <<>>, top_n, exclude_self)
        idx == get_index_for_appid(engine, appid)
        ref_genres == DictGet(engine.appid_to_genres, appid, {})
        k == engine.n_neighbors
    IN  IF idx = None
        THEN last' = [call EXCEPT !.outcome = "UnknownItem"]
        ELSE IF k > Len(engine.X)
        THEN last' = [call EXCEPT !.outcome = "NeighborsValueError",
                                  !.queries = <<k>>, !.ref_genres = ref_genres]
        ELSE \E pool \in KnnPools(engine, [num |-> engine.X[idx], den |-> 1], k) :
               last' = [call EXCEPT
                          !.outcome = "ok", !.queries = <<k>>, !.pool = pool,
                          !.ref_genres = ref_genres,
                          !.result = TopN(SortByScore(FilterSimilar(
                                       engine, appid, exclude_self, ref_genres, pool)),
                                       top_n)]

\* recommend_for_liked_appids(liked_appids, top_n)
recommend_for_liked_appids(liked_appids, top_n) ==
    LET call == Call("liked", 0, liked_appids, top_n, FALSE)
        indices == ResolvedIndices(engine, liked_appids)
        liked_genres_union == LikedGenresUnion(engine, liked_appids)
        liked_set == LikedSet(engine, liked_appids)
        k == engine.n_neighbors
    IN  IF indices = <<>>
        THEN last' = [call EXCEPT !.outcome = "NoValidSeeds"]
        ELSE IF k > Len(engine.X)
        THEN last' = [call EXCEPT !.outcome = "NeighborsValueError",
                                  !.queries = <<k>>, !.ref_genres = liked_genres_union]
        ELSE \E pool \in KnnPools(engine,
                                  MeanVec([i \in DOMAIN indices |-> engine.X[indices[i]]]),
                                  k) :
               last' = [call EXCEPT
                          !.outcome = "ok", !.queries = <<k>>, !.pool = pool,
                          !.ref_genres = liked_genres_union,
                          !.result = TopN(SortByScore(FilterLiked(
                                       engine, liked_set, liked_genres_union, pool)),
                                       top_n)]

\* the liked lists asked for: the method reads liked_appids through a mean,
\* a set and a union, none of which sees the order of the list, so the
\* lists are taken in nondecreasing order (repeated ids included)
LikedLists ==
    UNION {{l \in [1..n -> AppIds] : \A i, j \in 1..n : i < j => l[i] <= l[j]} :
           n \in 0..MaxLiked}

\* a variant that keeps the pool size of the last request in the engine
RecommendSimilarResizing ==
    /\ pc = "idle"
    /\ \E appid \in AppIds, top_n \in 0..MaxTopN, exclude_self \in BOOLEAN :
         /\ recommend_similar_by_appid(appid, top_n, exclude_self)
         /\ engine' = [engine EXCEPT !.n_neighbors = top_n]
    /\ pc' = "returned"
    /\ UNCHANGED <<inputs, out>>

RecommendSimilar ==
    /\ pc = "idle"
    /\ \E appid \in AppIds, top_n \in 0..MaxTopN, exclude_self \in BOOLEAN :
         recommend_similar_by_appid(appid, top_n, exclude_self)
    /\ pc' = "returned"
    /\ UNCHANGED <<engine, inputs, out>>

RecommendForLiked ==
    /\ pc = "idle"
    /\ \E liked_appids \in LikedLists, top_n \in 0..MaxTopN :
         recommend_for_liked_appids(liked_appids, top_n)
    /\ pc' = "returned"
    /\ UNCHANGED <<engine, inputs, out>>

\* the caller takes the answer (or the exception); the engine is idle again
Return ==
    /\ pc = "returned"
    /\ pc' = "idle"
    /\ last' = NoCall
    /\ UNCHANGED <<engine, inputs, out>>

Next == RecommendSimilar \/ RecommendForLiked \/ Return

Spec == Init /\ [][Next]_vars

\* ===================================================================
\*        build_game_features.py: the input files of a build
\* ===================================================================
NaN == 0 - 1000000

\* a fraction num/den; den = 0 is NaN
Frac(n, d) == [num |-> n, den |-> d]
FracNaN == Frac(0, 0)
FracIsNaN(f) == f.den = 0

RECURSIVE GCD(_, _)
GCD(a, b) == IF b = 0 THEN a ELSE GCD(b, a % b)

Reduce(f) ==
    IF f.den = 0 THEN FracNaN
    ELSE IF f.num = 0 THEN Frac(0, 1)
    ELSE LET g == GCD(f.num, f.den) IN Frac(f.num \div g, f.den \div g)

FracAdd(f, g) == Reduce(Frac(f.num * g.den + g.num * f.den, f.den * g.den))
FracMul(f, g) == Reduce(Frac(f.num * g.num, f.den * g.den))
FracOfInt(n) == Frac(n, 1)

\* the appids of the catalogue that vary, and of the filler games
FreeIds == 1..NumFree
FillerId(i) == 100 + i

\* one row of games.csv
GameRow(appid, type, name, genres, categories, is_free, price_final, date) ==
    [ appid |-> appid, type |-> type, name |-> name,
      release_date |-> date, price_final |-> price_final, is_free |-> is_free,
      required_age |-> IF appid % 2 = 0 THEN 18 ELSE 0,
      metacritic_score |-> IF appid % 2 = 0 THEN 80 ELSE NaN,
      genres |-> genres, categories |-> categories ]

\* one row of reviews_summary.csv, review_ratio = positive/total as written
\* by fetch_reviews.py (0.0 when there are no reviews)
ReviewRow(appid, pos, total) ==
    [ appid |-> appid, review_positive |-> pos, review_negative |-> total - pos,
      review_total |-> total,
      review_ratio |-> IF total > 0 THEN Reduce(Frac(pos, total)) ELSE Frac(0, 1) ]

\* one row of tags_summary.csv
TagRow(appid, tags) == [appid |-> appid, tags |-> tags]

\* what one varying appid contributes to the three input files: rows of
\* games.csv (games), of reviews_summary.csv (reviews), of tags_summary.csv
\* (tags)
BuildKinds(a) ==
    LET plain == GameRow(a, "game", <<"n">>, <<"B", ";", "A">>, <<"S">>,
                         "False", 999, <<"date", 2019>>)
        free == GameRow(a, "game", <<"n">>, <<>>, <<"M", ";", "S">>,
                        "True", NaN, <<"junk">>)
        dlc == GameRow(a, "dlc", <<"n">>, <<"A">>, <<"S">>,
                       "False", 499, <<"date", 2020>>)
        nameless == GameRow(a, "game", <<>>, <<"A">>, <<"S">>,
                            "NaN", NaN, <<"date", 2020>>)
    IN  { [games |-> <<plain>>, reviews |-> <<ReviewRow(a, 66, 99)>>,
           tags |-> <<TagRow(a, <<"T", ";", "R">>)>>],
          [games |-> <<free>>, reviews |-> <<>>, tags |-> <<>>],
          [games |-> <<dlc>>, reviews |-> <<ReviewRow(a, 9, 9)>>,
           tags |-> <<TagRow(a, <<"T">>)>>],
          [games |-> <<nameless>>, reviews |-> <<ReviewRow(a, 0, 0)>>,
           tags |-> <<TagRow(a, <<>>)>>],
          [games |-> <<plain, plain>>, reviews |-> <<ReviewRow(a, 0, 0)>>,
           tags |-> <<TagRow(a, <<"T">>)>>],
          [games |-> <<plain>>, reviews |-> <<ReviewRow(a, 3, 9), ReviewRow(a, 3, 9)>>,
           tags |-> <<>>],
          [games |-> <<free>>, reviews |-> <<ReviewRow(a, 9, 9)>>,
           tags |-> <<TagRow(a, <<"R">>), TagRow(a, <<"R", ";", "T">>)>>] }

\* the filler games: alike but for the appid, each with the tag T
FillerKind(i) ==
    [ games |-> <<GameRow(FillerId(i), "game", <<"n">>, <<"A">>, <<"S">>,
                          "False", 999, <<"date", 2020>>)>>,
      reviews |-> <<ReviewRow(FillerId(i), 6, 9)>>,
      tags |-> <<TagRow(FillerId(i), <<"T">>)>> ]

RECURSIVE ConcatField(_, _, _)
ConcatField(kinds, field, i) ==
    IF i > Len(kinds) THEN <<>>
    ELSE (CASE field = "games" -> kinds[i].games
            [] field = "reviews" -> kinds[i].reviews
            [] OTHER -> kinds[i].tags)
         \o ConcatField(kinds, field, i + 1)

\* the three files: the varying games first, then nfill filler games; a
\* file that does not exist has exists = FALSE
InputsOf(kind, nfill, has_reviews, has_tags) ==
    LET kinds == [i \in 1..(NumFree + nfill) |->
                    IF i <= NumFree THEN kind[i] ELSE FillerKind(i - NumFree)]
    IN  [ games |-> ConcatField(kinds, "games", 1),
          reviews |-> [exists |-> has_reviews,
                       rows |-> IF has_reviews THEN ConcatField(kinds, "reviews", 1)
                                ELSE <<>>],
          tags |-> [exists |-> has_tags,
                    rows |-> IF has_tags THEN ConcatField(kinds, "tags", 1) ELSE <<>>] ]

\* ===================================================================
\*        build_game_features.py: main(), step by step
\* ===================================================================
prior_m == 500
min_tag_games == 10
NUMERIC_BASE == 10
REVIEW_SCORE_BOOST == 20
REVIEW_VOLUME_BOOST == 15
GENRE_WEIGHT == 12
TAG_WEIGHT == 40
CAT_WEIGHT == 12

\* split_semicolon: the list of trimmed, non-empty labels, in cell order
split_semicolon(s) ==
    IF s = <<>> THEN <<>>
    ELSE SelectSeq([i \in DOMAIN SplitRec(s, ";", <<>>) |->
                      Strip(SplitRec(s, ";", <<>>)[i])],
                   LAMBDA t : t # <<>>)

\* games[games["type"] == "game"].dropna(subset=["name"])
KeepGames(games) == SelectSeq(games, LAMBDA r : r.type = "game" /\ r.name # <<>>)

\* pd.to_datetime(..., errors="coerce").dt.year
release_year(date) == IF date[1] = "date" THEN date[2] ELSE NaN

\* price_final / 100.0, in hundredths; 0.0 for the rows with is_free == True
price_eur(r) ==
    IF r.is_free = "True" THEN 0 ELSE r.price_final

\* fillna(False).astype(int)
is_free_int(r) == IF r.is_free = "True" THEN 1 ELSE 0

Derive(r) ==
    [ release_year |-> release_year(r.release_date),
      price_eur |-> price_eur(r),
      is_free |-> is_free_int(r) ] @@ r

RECURSIVE MapSeq(_, _)
MapSeq(Op(_), rows) ==
    IF rows = <<>> THEN <<>> ELSE <<Op(Head(rows))>> \o MapSeq(Op, Tail(rows))

RECURSIVE FlatMap(_, _)
FlatMap(Op(_), rows) ==
    IF rows = <<>> THEN <<>> ELSE Op(Head(rows)) \o FlatMap(Op, Tail(rows))

\* games.merge(right, on="appid", how="left"): one row per matching right
\* row, in the order of the right table; one row of NaN cells without a match
LeftMerge(left, right, Join(_, _), Missing(_)) ==
    LET one(l) ==
          LET hits == SelectSeq(right, LAMBDA r : r.appid = l.appid)
          IN  IF hits = <<>> THEN <<Missing(l)>>
              ELSE [i \in DOMAIN hits |-> Join(l, hits[i])]
    IN  FlatMap(one, left)

ReviewCols(pos, neg, total, ratio) ==
    [ review_positive |-> pos, review_negative |-> neg,
      review_total |-> total, review_ratio |-> ratio ]

\* lines 41-56: the review columns, review_total and review_ratio filled
MergeReviews(games, reviews) ==
    LET join(l, r) == ReviewCols(r.review_positive, r.review_negative,
                                 r.review_total, r.review_ratio) @@ l
        missing(l) == ReviewCols(NaN, NaN, 0, Frac(1, 2)) @@ l
        absent(l) == ReviewCols(0, 0, 0, Frac(0, 1)) @@ l
    IN  IF reviews.exists THEN LeftMerge(games, reviews.rows, join, missing)
        ELSE MapSeq(absent, games)

\* lines 62-72
global_mean_ratio(games) ==
    LET has == SelectSeq(games, LAMBDA r : r.review_total > 0)
        total_pos_global == SeqSum([i \in DOMAIN has |-> has[i].review_positive])
        total_rev_global == SeqSum([i \in DOMAIN has |-> has[i].review_total])
    IN  IF has # <<>> /\ total_rev_global > 0
        THEN Reduce(Frac(total_pos_global, total_rev_global))
        ELSE Frac(1, 2)

\* line 79: (n / (n + m)) * r + (m / (n + m)) * global_mean_ratio
review_score_adj_Sum(n, r, g) == FracAdd(r, g)
review_score_adj(n, r, g) ==
    FracAdd(FracMul(Frac(n, n + prior_m), r), FracMul(Frac(prior_m, n + prior_m), g))

\* a fraction in Scale units, floored
FracFixed(f) == (f.num * Scale) \div f.den

\* lines 58-79
AddReviewScores(games) ==
    LET g == global_mean_ratio(games)
        add(r) == [ review_volume_log |-> Log10(r.review_total + 1) * Scale,
                    review_score_adj |-> review_score_adj(r.review_total, r.review_ratio, g)
                  ] @@ r
    IN  MapSeq(add, games)

\* lines 81-91: the tags column, missing cells filled with ""
MergeTags(games, tags) ==
    LET join(l, r) == [tags |-> r.tags] @@ l
        missing(l) == [tags |-> <<>>] @@ l
    IN  IF tags.exists THEN LeftMerge(games, tags.rows, join, missing)
        ELSE MapSeq(missing, games)

\* lines 94-106: the numeric columns, NaN filled with 0; review_score_adj
\* enters the matrix in Scale units
numeric_cols ==
    << "price_eur", "metacritic_score", "release_year", "required_age", "is_free",
       "review_score_adj", "review_volume_log" >>

FillNa(v) == IF v = NaN THEN 0 ELSE v

NumericCell(r, col) ==
    CASE col = "price_eur" -> FillNa(r.price_eur)
      [] col = "metacritic_score" -> FillNa(r.metacritic_score)
      [] col = "release_year" -> FillNa(r.release_year)
      [] col = "required_age" -> FillNa(r.required_age)
      [] col = "is_free" -> r.is_free
      [] col = "review_score_adj" -> FracFixed(r.review_score_adj)
      [] OTHER -> r.review_volume_log

\* ------------------------------------------------- MultiLabelBinarizer
\* the order of str: by code point, then by length
Alphabet == <<" ", ";", "A", "B", "M", "P", "R", "S", "T", "n">>
CharOrd(c) == CHOOSE i \in DOMAIN Alphabet : Alphabet[i] = c

RECURSIVE StrLess(_, _)
StrLess(s, t) ==
    IF t = <<>> THEN FALSE
    ELSE IF s = <<>> THEN TRUE
    ELSE IF Head(s) = Head(t) THEN StrLess(Tail(s), Tail(t))
    ELSE CharOrd(Head(s)) < CharOrd(Head(t))

\* sorted(set(labels))
RECURSIVE SortedLabels(_)
SortedLabels(S) ==
    IF S = {} THEN <<>>
    ELSE LET lo == CHOOSE x \in S : \A y \in S \ {x} : StrLess(x, y)
         IN  <<lo>> \o SortedLabels(S \ {lo})

\* fit: classes_, over the label lists of all rows
RECURSIVE AppendNew(_, _)
AppendNew(acc, labels) ==
    IF labels = <<>> THEN acc
    ELSE AppendNew(IF Head(labels) \in Range(acc) THEN acc ELSE Append(acc, Head(labels)),
                   Tail(labels))

RECURSIVE FirstSeenFrom(_, _, _)
FirstSeenFrom(lists, i, acc) ==
    IF i > Len(lists) THEN acc ELSE FirstSeenFrom(lists, i + 1, AppendNew(acc, lists[i]))

ClassesFirstSeen(lists) == FirstSeenFrom(lists, 1, <<>>)
Classes(lists) == SortedLabels(UNION {Range(lists[i]) : i \in DOMAIN lists})

\* transform: one 0/1 row per label list
Indicator(lists, classes) ==
    [i \in DOMAIN lists |->
        [j \in DOMAIN classes |-> IF classes[j] \in Range(lists[i]) THEN 1 ELSE 0]]

FeatureNames(prefix, classes) == [j \in DOMAIN classes |-> <<prefix, classes[j]>>]

\* lines 128-135: the tag columns kept
ColumnSum(matrix, j) == SeqSum([i \in DOMAIN matrix |-> matrix[i][j]])

keep_mask(tags_matrix, ncols) ==
    [j \in 1..ncols |-> ColumnSum(tags_matrix, j) >= min_tag_games]

RECURSIVE MaskSeq(_, _)
MaskSeq(row, mask) ==
    IF row = <<>> THEN <<>>
    ELSE (IF Head(mask) THEN <<Head(row)>> ELSE <<>>) \o MaskSeq(Tail(row), Tail(mask))

PruneNamesUnmasked(names, mask) == names
PruneNames(names, mask) == MaskSeq(names, mask)

PruneColumns(matrix, mask) == [i \in DOMAIN matrix |-> MaskSeq(matrix[i], mask)]

\* ------------------------------------------------------- StandardScaler
\* 100 * sqrt(r), floored
SqrtX100(r) ==
    IF r <= 200000 THEN ISqrtIn(r * 10000, 0, 46340) ELSE 100 * ISqrtIn(r, 0, 46340)

\* (v - mean) / std over a column of n values with sum s and sum of squares
\* q, in Scale units: (n*v - s) / sqrt(n*q - s*s); a constant column has
\* scale 1 and comes out as 0
ZScore(v, n, s, q) ==
    LET num == n * v - s
        rad == n * q - s * s
        mag == ((IF num < 0 THEN 0 - num ELSE num) * Scale * 100) \div SqrtX100(rad)
    IN  IF rad = 0 THEN 0 ELSE IF num < 0 THEN 0 - mag ELSE mag

\* scaler.fit_transform(games[numeric_cols].values), then the weights of
\* lines 147-153, in units of 1/(10*Scale)
NumericWeight(col) ==
    CASE col = "review_score_adj" -> (NUMERIC_BASE * REVIEW_SCORE_BOOST) \div 10
      [] col = "review_volume_log" -> (NUMERIC_BASE * REVIEW_VOLUME_BOOST) \div 10
      [] OTHER -> NUMERIC_BASE

NumericColumn(games, col) ==
    LET vals == [i \in DOMAIN games |-> NumericCell(games[i], col)]
        stats == [n |-> Len(vals), s |-> SeqSum(vals),
                  q |-> SeqSum([i \in DOMAIN vals |-> vals[i] * vals[i]])]
    IN  [i \in DOMAIN vals |->
            NumericWeight(col) * ZScore(vals[i], stats.n, stats.s, stats.q)]

numeric_matrix(games) ==
    LET cols == [c \in DOMAIN numeric_cols |-> NumericColumn(games, numeric_cols[c])]
    IN  [i \in DOMAIN games |-> [c \in DOMAIN numeric_cols |-> cols[c][i]]]

\* a 0/1 block times its weight, in units of 1/(10*Scale)
Weighted(matrix, weight) ==
    [i \in DOMAIN matrix |-> [j \in DOMAIN matrix[i] |-> matrix[i][j] * weight * Scale]]

\* np.hstack
HStack(blocks, nrows) ==
    [i \in 1..nrows |-> blocks[1][i] \o blocks[2][i] \o blocks[3][i] \o blocks[4][i]]

\* lines 181-200: the columns of games_clean.csv
CleanRow(r) ==
    [ appid |-> r.appid, name |-> r.name, release_date |-> r.release_date,
      release_year |-> FillNa(r.release_year), price_eur |-> FillNa(r.price_eur),
      metacritic_score |-> FillNa(r.metacritic_score),
      required_age |-> FillNa(r.required_age), is_free |-> r.is_free,
      genres |-> r.genres, categories |-> r.categories, tags |-> r.tags,
      review_positive |-> r.review_positive, review_negative |-> r.review_negative,
      review_total |-> r.review_total, review_ratio |-> r.review_ratio,
      review_score_adj |-> r.review_score_adj ]

\* main(): the two files written from the three files read
BuildOutput(inp) ==
    LET games == MergeTags(AddReviewScores(MergeReviews(
                     MapSeq(Derive, KeepGames(inp.games)), inp.reviews)), inp.tags)
        genres_list == [i \in DOMAIN games |-> split_semicolon(games[i].genres)]
        categories_list == [i \in DOMAIN games |-> split_semicolon(games[i].categories)]
        tags_list == [i \in DOMAIN games |-> split_semicolon(games[i].tags)]
        genre_classes == Classes(genres_list)
        cat_classes == Classes(categories_list)
        tag_classes == Classes(tags_list)
        tags_matrix == Indicator(tags_list, tag_classes)
        mask == keep_mask(tags_matrix, Len(tag_classes))
        feature_names ==
            [c \in DOMAIN numeric_cols |-> <<numeric_cols[c], <<>>>>]
            \o FeatureNames("genre_", genre_classes)
            \o PruneNames(FeatureNames("tag_", tag_classes), mask)
            \o FeatureNames("cat_", cat_classes)
        X == HStack(<< numeric_matrix(games),
                       Weighted(Indicator(genres_list, genre_classes), GENRE_WEIGHT),
                       Weighted(PruneColumns(tags_matrix, mask), TAG_WEIGHT),
                       Weighted(Indicator(categories_list, cat_classes), CAT_WEIGHT) >>,
                    Len(games))
    IN  [ games_clean |-> [i \in DOMAIN games |-> CleanRow(games[i])],
          features |-> [ X |-> X,
                         appid |-> [i \in DOMAIN games |-> games[i].appid],
                         feature_names |-> feature_names ] ]

\* ===================================================================
\*        build_game_features.py: one run of the build
\* ===================================================================
NoEngine == [n_neighbors |-> 0]

FreeKinds == {kind \in [FreeIds -> UNION {BuildKinds(a) : a \in FreeIds}] :
                \A a \in FreeIds : kind[a] \in BuildKinds(a)}

\* the files in PROCESSED_DIR before the build: games.csv, and
\* reviews_summary.csv and tags_summary.csv if they exist; one filler game
\* fewer than min_tag_games, or exactly that many
InitBuild ==
    /\ \E kind \in FreeKinds, nfill \in {min_tag_games - 1, min_tag_games},
          has_reviews \in BOOLEAN, has_tags \in BOOLEAN :
         inputs = InputsOf(kind, nfill, has_reviews, has_tags)
    /\ out = NoFiles
    /\ pc = "build"
    /\ engine = NoEngine
    /\ last = NoCall

\* main() of build_game_features.py
BuildFeatures ==
    /\ pc = "build"
    /\ out' = BuildOutput(inputs)
    /\ pc' = "built"
    /\ UNCHANGED <<engine, last, inputs>>

\* main() run a second time on the same three files
Rebuild ==
    /\ pc = "built"
    /\ out' = BuildOutput(inputs)
    /\ pc' = "rebuilt"
    /\ UNCHANGED <<engine, last, inputs>>

NextBuild == BuildFeatures \/ Rebuild

SpecBuild == InitBuild /\ [][NextBuild]_vars

\* ===================================================================
\*        a rebuild beside the construction of an engine
\* ===================================================================
\* a catalogue item that is in neither file
Absent == [inBundle |-> FALSE, inTable |-> FALSE, twice |-> FALSE, genres |-> <<>>]

\* the two files one build writes: the same items 1..n in both
Snapshots ==
    {DiskOf([a \in AppIds |-> IF a <= n THEN k ELSE Absent]) :
        n \in AppIds, k \in {x \in Kinds : x.inBundle /\ x.inTable /\ ~x.twice}}

ReviewColumns == {"review_score_adj", "review_total"}

\* game_features.npz and games_clean.csv as files: a file may not exist, and
\* a games table written by an older build may lack review columns
FeaturesFile(rows) == [exists |-> TRUE, rows |-> rows]
GamesFile(rows, columns) ==
    [exists |-> TRUE, columns |-> columns,
     rows |-> [i \in DOMAIN rows |->
                 [c \in {"appid", "genres"} \cup columns |-> rows[i][c]]]]

FilesOf(d) == [features |-> FeaturesFile(d.bundle),
               games_clean |-> GamesFile(d.games, ReviewColumns)]

\* the directory before the rebuild: what is left of one earlier build
OldFiles ==
    UNION {{[features |-> f, games_clean |-> g] :
               f \in {NoFiles, FeaturesFile(e.bundle)},
               g \in {NoFiles} \cup {GamesFile(e.games, cols) : cols \in SUBSET ReviewColumns}} :
           e \in Snapshots}

\* lines 49-53: a review column the table lacks is filled with its default
EnsureReviewColumns(rows) ==
    [i \in DOMAIN rows |->
        rows[i] @@ [review_score_adj |-> Scale \div 2, review_total |-> 0]]

NoLoad == [op |-> "load", outcome |-> "none", features |-> NoFiles, games_clean |-> NoFiles]

\* the directory holds the files of one earlier build (or lacks some); the
\* rebuild has computed its outputs and is about to write them, and the
\* constructor of an engine is about to read
InitLoad ==
    /\ \E old \in OldFiles, d \in Snapshots :
         /\ FilesOf(d) # old
         /\ out = old
         /\ inputs = [before |-> old, pending |-> FilesOf(d)]
    /\ pc = [build |-> "write_clean", load |-> "read_features"]
    /\ engine = NoEngine
    /\ last = NoLoad

\* build_game_features.py line 202: games_clean.to_csv
WriteClean ==
    /\ pc.build = "write_clean"
    /\ out' = [out EXCEPT !.games_clean = inputs.pending.games_clean]
    /\ pc' = [pc EXCEPT !.build = "write_features"]
    /\ UNCHANGED <<engine, last, inputs>>

\* build_game_features.py lines 207-212: np.savez_compressed
WriteFeatures ==
    /\ pc.build = "write_features"
    /\ out' = [out EXCEPT !.features = inputs.pending.features]
    /\ pc' = [pc EXCEPT !.build = "done"]
    /\ UNCHANGED <<engine, last, inputs>>

\* content_based.py lines 27-30: np.load of game_features.npz
LoadFeatures ==
    /\ pc.load = "read_features"
    /\ IF out.features.exists
       THEN /\ last' = [last EXCEPT !.features = out.features]
            /\ pc' = [pc EXCEPT !.load = "read_games"]
       ELSE /\ last' = [last EXCEPT !.outcome = "FileNotFoundError"]
            /\ pc' = [pc EXCEPT !.load = "failed"]
    /\ UNCHANGED <<engine, inputs, out>>

\* content_based.py lines 32-82: pd.read_csv of games_clean.csv and the rest
\* of __init__
LoadGames ==
    /\ pc.load = "read_games"
    /\ IF out.games_clean.exists
       THEN /\ last' = [last EXCEPT !.games_clean = out.games_clean, !.outcome = "ok"]
            /\ engine' = EngineOf([bundle |-> last.features.rows,
                                   games |-> EnsureReviewColumns(out.games_clean.rows)],
                                  NNeighbors)
            /\ pc' = [pc EXCEPT !.load = "done"]
       ELSE /\ last' = [last EXCEPT !.outcome = "FileNotFoundError"]
            /\ engine' = engine
            /\ pc' = [pc EXCEPT !.load = "failed"]
    /\ UNCHANGED <<inputs, out>>

NextLoad == WriteClean \/ WriteFeatures \/ LoadFeatures \/ LoadGames

SpecLoad == InitLoad /\ [][NextLoad]_vars

\* ===================================================================
\*        fetch_appdetails.py, fetch_reviews.py, fetch_tags.py
\* ===================================================================
Fetchers == {"appdetails", "reviews", "tags"}

\* the appids a fetcher is asked for (app_list.csv, games.csv), in file order
Targets == [i \in 1..NumTargets |-> i]

\* what the remote service answers for one appid in one run: a payload, or
\* an exception raised by the request
FetchError == 0
Responses == [1..NumTargets -> {FetchError} \cup (1..NumValues)]

\* the tags cell written for an appid whose request raised
EmptyTags == 0

\* the output file of a fetcher: one row per recorded appid
AbsentFile == [exists |-> FALSE, rows |-> <<>>]
RecordedAppids(file) == {file.rows[i].appid : i \in DOMAIN file.rows}

\* the loop of main(): the rows a run adds, given the appids found in the
\* output file at its start; a request that raised adds no row, except in
\* fetch_tags.py, which adds a row with empty tags
RECURSIVE NewRows(_, _, _, _)
NewRows(fetcher, existing, resp, i) ==
    IF i > Len(Targets) THEN <<>>
    ELSE LET appid == Targets[i]
             rest == NewRows(fetcher, existing, resp, i + 1)
         IN  IF appid \in existing THEN rest
             ELSE IF resp[i] = FetchError
                  THEN (IF fetcher = "tags"
                        THEN <<[appid |-> appid, value |-> EmptyTags]>> \o rest
                        ELSE rest)
             ELSE <<[appid |-> appid, value |-> resp[i]]>> \o rest

\* drop_duplicates(subset=["appid"]): the first row of each appid
DropDuplicates(rows) ==
    SelectSeq([i \in DOMAIN rows |->
                 IF \A j \in 1..(i - 1) : rows[j].appid # rows[i].appid
                 THEN rows[i] ELSE [appid |-> 0, value |-> 0]],
              LAMBDA r : r.appid # 0)

\* the output file after a run
FileAfter(fetcher, file, resp) ==
    LET new_rows == NewRows(fetcher, RecordedAppids(file), resp, 1)
    IN  CASE fetcher = "appdetails" ->
               [exists |-> TRUE, rows |-> file.rows \o new_rows]
          [] fetcher = "reviews" ->
               IF file.rows \o new_rows = <<>> THEN file
               ELSE [exists |-> TRUE, rows |-> DropDuplicates(file.rows \o new_rows)]
          [] OTHER ->
               [exists |-> TRUE,
                rows |-> IF new_rows # <<>> THEN DropDuplicates(file.rows \o new_rows)
                         ELSE file.rows]

\* the requests a run makes, and those of them that raised
Attempted(file) == Range(Targets) \ RecordedAppids(file)
Raised(file, resp) == {Targets[i] : i \in {j \in DOMAIN Targets :
                                             /\ Targets[j] \notin RecordedAppids(file)
                                             /\ resp[j] = FetchError}}

NoRun == [op |-> "none", attempted |-> {}, errors |-> {}]

\* one fetcher, its output file not yet written, no run made
InitFetch ==
    /\ \E f \in Fetchers : pc = [fetcher |-> f, run |-> 0]
    /\ out = AbsentFile
    /\ inputs = [targets |-> Targets]
    /\ last = NoRun
    /\ engine = NoEngine

\* one run of a fetcher's main() under the answers resp
RunFetcher(fetcher, resp) ==
    /\ out' = FileAfter(fetcher, out, resp)
    /\ last' = [op |-> fetcher, attempted |-> Attempted(out),
                errors |-> Raised(out, resp)]

FetchAppdetails ==
    /\ pc.fetcher = "appdetails"
    /\ pc.run < MaxRuns
    /\ \E resp \in Responses : RunFetcher("appdetails", resp)
    /\ pc' = [pc EXCEPT !.run = pc.run + 1]
    /\ UNCHANGED <<engine, inputs>>

FetchReviews ==
    /\ pc.fetcher = "reviews"
    /\ pc.run < MaxRuns
    /\ \E resp \in Responses : RunFetcher("reviews", resp)
    /\ pc' = [pc EXCEPT !.run = pc.run + 1]
    /\ UNCHANGED <<engine, inputs>>

FetchTags ==
    /\ pc.fetcher = "tags"
    /\ pc.run < MaxRuns
    /\ \E resp \in Responses : RunFetcher("tags", resp)
    /\ pc' = [pc EXCEPT !.run = pc.run + 1]
    /\ UNCHANGED <<engine, inputs>>

NextFetch == FetchAppdetails \/ FetchReviews \/ FetchTags

SpecFetch == InitFetch /\ [][NextFetch]_vars

\* ===================================================================
\*                              CLAIMS
\* ===================================================================
Returned(op) == pc = "returned" /\ last.op = op
ReturnedList(op) == Returned(op) /\ last.outcome = "ok"

GenresOf(a) == DictGet(engine.appid_to_genres, a, {})
PoolAppid(i) == engine.appids[last.pool[i].idx]
Resolves(a) == a \in DOMAIN engine.appid_to_index

\* C1: with exclude_self = True, recommend_similar_by_appid never returns a
\* row whose appid is the seed appid.
C1_SeedNotReturned ==
    (Returned("similar") /\ last.exclude_self)
        => \A i \in DOMAIN last.result : last.result[i].appid # last.appid

\* the seed was in the neighbour pool, and something else was returned
C1_Witness ==
    /\ ReturnedList("similar") /\ last.exclude_self
    /\ \E i \in DOMAIN last.pool : PoolAppid(i) = last.appid
    /\ last.result # <<>>

\* C2: recommend_for_liked_appids never returns an appid that is in
\* liked_appids, resolved or not.
C2_LikedNotReturned ==
    Returned("liked")
        => \A i \in DOMAIN last.result : last.result[i].appid \notin Range(last.liked)

\* a liked id was in the pool, another liked id did not resolve, and
\* something was returned
C2_Witness ==
    /\ ReturnedList("liked")
    /\ \E i \in DOMAIN last.pool : PoolAppid(i) \in Range(last.liked)
    /\ \E a \in Range(last.liked) : ~Resolves(a)
    /\ last.result # <<>>

\* C3: in recommend_similar_by_appid, a seed with genres only gets items
\* that share a genre label with it; a seed without genres loses no
\* candidate to the genre filter (only the seed itself, if excluded, and
\* the cut at top_n shorten the list).
C3_GenreFilter ==
    ReturnedList("similar") =>
        LET ref == GenresOf(last.appid)
            notSelf == {i \in DOMAIN last.pool :
                          ~(last.exclude_self /\ PoolAppid(i) = last.appid)}
        IN  /\ ref # {} =>
                 \A i \in DOMAIN last.result : ref \cap GenresOf(last.result[i].appid) # {}
            /\ ref = {} => Len(last.result) = Min2(last.top_n, Cardinality(notSelf))

\* a seed with genres, a pool neighbour that shares none of them, and a
\* non-empty answer
C3_Witness ==
    /\ ReturnedList("similar")
    /\ GenresOf(last.appid) # {}
    /\ \E i \in DOMAIN last.pool :
         /\ PoolAppid(i) # last.appid
         /\ GenresOf(last.appid) \cap GenresOf(PoolAppid(i)) = {}
    /\ last.result # <<>>

\* C4: the genre reference set of recommend_for_liked_appids is the union of
\* the genre sets of the liked ids that resolved to a row; an unresolved id
\* contributes nothing.
C4_RefIsUnionOfResolved ==
    ReturnedList("liked")
        => last.ref_genres = UNION {GenresOf(a) : a \in {b \in Range(last.liked) : Resolves(b)}}

\* C5: recommend_similar_by_appid raises UnknownItem, returning no list, iff
\* appid is no key of appid_to_index, and it does so before any neighbour
\* query.
C5_UnknownItemIff ==
    Returned("similar") =>
        /\ (last.outcome = "UnknownItem") <=> ~Resolves(last.appid)
        /\ last.outcome = "UnknownItem" => last.result = <<>> /\ last.queries = <<>>

\* an appid that has a row in the games table but none in the bundle
C5_Witness ==
    /\ Returned("similar") /\ last.outcome = "UnknownItem"
    /\ last.appid \in DOMAIN engine.appid_to_genres

\* C6: recommend_for_liked_appids raises NoValidSeeds iff no liked id
\* resolves; when one does, a ranked list is returned without error.
C6_NoValidSeedsIff ==
    Returned("liked") =>
        LET none == \A a \in Range(last.liked) : ~Resolves(a)
        IN  /\ (last.outcome = "NoValidSeeds") <=> none
            /\ ~none => last.outcome = "ok"

\* does pool entry i pass the exclusion and the genre filter of the call
Survives(i) ==
    /\ IF last.op = "similar"
       THEN ~(last.exclude_self /\ PoolAppid(i) = last.appid)
       ELSE PoolAppid(i) \notin Range(last.liked)
    /\ last.ref_genres = {} \/ last.ref_genres \cap GenresOf(PoolAppid(i)) # {}

\* C7: a returned list is in non-increasing overall_score order, has
\* min(top_n, surviving pool candidates) rows, and comes from one neighbour
\* query with the construction-time k.
C7_RankedAndCut ==
    (pc = "returned" /\ last.outcome = "ok") =>
        /\ \A i, j \in DOMAIN last.result :
             i < j => last.result[i].overall_score >= last.result[j].overall_score
        /\ Len(last.result) =
             Min2(last.top_n, Cardinality({i \in DOMAIN last.pool : Survives(i)}))
        /\ last.queries = <<engine.n_neighbors>>
        /\ Len(last.pool) = engine.n_neighbors

\* two rows returned, the farther one first: the re-ranking changed the
\* pool's order
C7_Witness ==
    /\ pc = "returned" /\ last.outcome = "ok"
    /\ Len(last.result) = 2
    /\ last.result[1].distance > last.result[2].distance

\* C8: a recommend call ends in a ranked list, UnknownItem or NoValidSeeds;
\* nothing else.
C8_OnlyNamedOutcomes ==
    pc = "returned" => last.outcome \in {"ok", "UnknownItem", "NoValidSeeds"}

\* ------------------------------------------------------ the feature build
Built == pc = "built"

BlockOf(name) ==
    CASE name[1] = "genre_" -> 2
      [] name[1] = "tag_" -> 3
      [] name[1] = "cat_" -> 4
      [] OTHER -> 1

\* the labels of row i in the column a feature name belongs to
LabelsOf(i, name) ==
    LET row == out.games_clean[i]
    IN  Range(split_semicolon(CASE name[1] = "genre_" -> row.genres
                                [] name[1] = "tag_" -> row.tags
                                [] OTHER -> row.categories))

\* C9: in the saved bundle X has one row per appid entry, every row has
\* D = len(feature_names) columns, and feature_names[j] names column j: the
\* numeric columns first, then the genre, tag and category indicators, each
\* indicator column non-zero exactly in the rows that carry its label.
C9_BundleShape ==
    Built =>
        LET f == out.features
            D == Len(f.feature_names)
            nnum == Len(numeric_cols)
        IN  /\ Len(f.X) = Len(f.appid)
            /\ \A i \in DOMAIN f.X : Len(f.X[i]) = D
            /\ D >= nnum
            /\ \A j \in 1..D :
                 IF j <= nnum THEN f.feature_names[j] = <<numeric_cols[j], <<>>>>
                 ELSE /\ BlockOf(f.feature_names[j]) > 1
                      /\ \A i \in DOMAIN f.X :
                           (f.X[i][j] # 0) <=>
                               (f.feature_names[j][2] \in LabelsOf(i, f.feature_names[j]))
            /\ \A j, k \in 1..D :
                 j < k => BlockOf(f.feature_names[j]) <= BlockOf(f.feature_names[k])

\* a build that kept one tag column and pruned another
C9_Witness ==
    /\ Built
    /\ \E j \in DOMAIN out.features.feature_names :
         out.features.feature_names[j][1] = "tag_"
    /\ \E i \in DOMAIN out.games_clean :
         \E t \in Range(split_semicolon(out.games_clean[i].tags)) :
            \A j \in DOMAIN out.features.feature_names :
               out.features.feature_names[j] # <<"tag_", t>>

\* C10: the appids of the build output are unique, and every games.csv item
\* of type "game" with a name has exactly one row in it.
C10_OneRowPerItem ==
    Built =>
        LET appid == out.features.appid
            passing == {r.appid : r \in {g \in Range(inputs.games) :
                                           g.type = "game" /\ g.name # <<>>}}
        IN  /\ \A i, j \in DOMAIN appid : i # j => appid[i] # appid[j]
            /\ \A a \in passing : Cardinality({i \in DOMAIN appid : appid[i] = a}) = 1

\* ------------------------------------------------- the smoothed review score
\* the catalogue items of the build that have reviews: the first row of each
\* appid with review_total > 0
ReviewedItem(i) ==
    /\ out.games_clean[i].review_total > 0
    /\ \A j \in 1..(i - 1) : out.games_clean[j].appid # out.games_clean[i].appid

ReviewedPositive == SeqSum([i \in DOMAIN out.games_clean |->
                              IF ReviewedItem(i)
                              THEN out.games_clean[i].review_positive ELSE 0])
ReviewedTotal == SeqSum([i \in DOMAIN out.games_clean |->
                           IF ReviewedItem(i)
                           THEN out.games_clean[i].review_total ELSE 0])

\* C11: every row of the build with review_total = 0 has review_score_adj equal
\* to the global mean ratio, the positives of the reviewed items over their
\* review totals, or 1/2 when no item has a review; the row's own ratio does
\* not enter.
C11_ZeroReviewsGetGlobalMean ==
    Built =>
        \A i \in DOMAIN out.games_clean :
            LET s == out.games_clean[i].review_score_adj
            IN  out.games_clean[i].review_total = 0 =>
                    /\ s.den > 0
                    /\ IF ReviewedTotal > 0
                       THEN s.num * ReviewedTotal = s.den * ReviewedPositive
                       ELSE s.num * 2 = s.den

\* the appids that have a row in reviews_summary.csv
ReviewedAppids ==
    IF inputs.reviews.exists
    THEN {inputs.reviews.rows[i].appid : i \in DOMAIN inputs.reviews.rows}
    ELSE {}

\* C12: a row of the build whose appid has no row in the review table has
\* review_ratio = 0.5 and review_total = 0, whether the table exists without
\* that appid or does not exist at all.
C12_NoEntryIsNeutral ==
    Built =>
        \A i \in DOMAIN out.games_clean :
            out.games_clean[i].appid \notin ReviewedAppids =>
                /\ out.games_clean[i].review_total = 0
                /\ out.games_clean[i].review_ratio = Frac(1, 2)

\* the review rows of the input are well formed
ReviewRowsInRange ==
    \A i \in DOMAIN inputs.reviews.rows :
        LET r == inputs.reviews.rows[i]
        IN  /\ 0 <= r.review_positive /\ r.review_positive <= r.review_total
            /\ r.review_ratio.den > 0
            /\ 0 <= r.review_ratio.num /\ r.review_ratio.num <= r.review_ratio.den

\* C13: with review rows in range, every review_score_adj of the build lies
\* in [0, 1].
C13_ScoreInUnitInterval ==
    (Built /\ ReviewRowsInRange) =>
        \A i \in DOMAIN out.games_clean :
            LET s == out.games_clean[i].review_score_adj
            IN  s.den > 0 /\ 0 <= s.num /\ s.num <= s.den

\* a reviewed row with raw ratio 1 smoothed strictly below 1
C13_Witness ==
    /\ Built
    /\ ReviewRowsInRange
    /\ \E i \in DOMAIN out.games_clean :
         LET row == out.games_clean[i]
         IN  /\ row.review_total > 0
             /\ row.review_ratio = Frac(1, 1)
             /\ 0 < row.review_score_adj.num
             /\ row.review_score_adj.num < row.review_score_adj.den

\* ------------------------------------------------------------ _normalize
\* the normalised review fields _compute_overall_score feeds into the score
NormRev(c) == normalize(c.review_score_adj,
                        engine.review_score_min, engine.review_score_max, Scale \div 2)
NormVol(c) == normalize(c.review_volume_log,
                        engine.review_vol_min, engine.review_vol_max, 0)

\* C14: _normalize returns default whenever vmax <= vmin, and otherwise 0 at
\* vmin and 1 at vmax; the normalised review score and review volume of every
\* candidate the engine scores lie in [0, 1].
C14_NormalizeInUnitInterval ==
    /\ \A vmin, vmax, default \in {0, Scale \div 2, Scale} :
         IF vmax <= vmin
         THEN \A v \in {0, Scale \div 2, Scale} : normalize(v, vmin, vmax, default) = default
         ELSE /\ normalize(vmin, vmin, vmax, default) = 0
              /\ normalize(vmax, vmin, vmax, default) = Scale
    /\ pc = "returned" =>
         \A i \in DOMAIN last.result :
            /\ 0 <= NormRev(last.result[i]) /\ NormRev(last.result[i]) <= Scale
            /\ 0 <= NormVol(last.result[i]) /\ NormVol(last.result[i]) <= Scale

\* ------------------------------------------------------- repeated builds
\* the labels of each indicator block are in strictly ascending order
VocabularySorted ==
    \A j, k \in DOMAIN out.features.feature_names :
        LET a == out.features.feature_names[j]
            b == out.features.feature_names[k]
        IN  (j < k /\ a[1] = b[1] /\ BlockOf(a) > 1) => StrLess(a[2], b[2])

Loaded == pc.load = "done" /\ last.outcome = "ok"

\* C16: an engine constructed while a rebuild runs has read its feature bundle
\* and its games table from the same build: both as they were before the
\* rebuild, or both as the rebuild writes them.
C16_NoMixedSnapshot ==
    Loaded =>
        \/ /\ last.features = inputs.before.features
           /\ last.games_clean = inputs.before.games_clean
        \/ /\ last.features = inputs.pending.features
           /\ last.games_clean = inputs.pending.games_clean

FileAppids(file) == {file.rows[i].appid : i \in DOMAIN file.rows}

\* C18: construction completes only on well-formed inputs: both files exist,
\* the games table has the review_score_adj and review_total columns, and the
\* bundle's appids are those of the games table; otherwise it ends in an error.
C18_ConstructionAbortsOnBadInput ==
    /\ pc.load = "failed" => engine = NoEngine /\ last.outcome = "FileNotFoundError"
    /\ Loaded =>
         /\ last.features.exists /\ last.games_clean.exists
         /\ ReviewColumns \subseteq last.games_clean.columns
         /\ FileAppids(last.features) = FileAppids(last.games_clean)
    /\ pc.load = "done" => Loaded

C19_FetchersResume ==
    [][pc'.run = pc.run + 1 =>
         /\ \A a \in last'.errors : a \notin RecordedAppids(out')
         /\ \A a \in last.errors : a \in last'.attempted
         /\ \A i \in DOMAIN out.rows :
              /\ out.rows[i].appid \notin last'.attempted
              /\ i \in DOMAIN out'.rows /\ out'.rows[i] = out.rows[i]]_vars

====
